---- MODULE Spec2Model ----
(***************************************************************************)
(* Puppetmaster: a cycle-level simulator that dispatches transactions to   *)
(* a bank of cores.  The module models                                     *)
(*   - TransactionSet and its compatibility test (pmtypes.py, model.py),   *)
(*   - the renaming table of the fixed-size address sets (sets.py) and the *)
(*     TransactionGenerator that draws transactions through it,            *)
(*   - the Greedy, Maximal and Tournament schedulers and the common        *)
(*     AbstractScheduler.run (schedulers.py),                              *)
(*   - the best-first driver over MachineStates with the executor          *)
(*     (the Simulator used by test.py),                                    *)
(*   - the first-generation driver Machine.run with its                    *)
(*     ConstantTimeScheduler (machine.py).                                 *)
(***************************************************************************)
EXTENDS Integers, Sequences, FiniteSets, TLC

VARIABLES
    trs,      \* the source: sequence of transactions (read_set, write_set, time)
    cfg,      \* the parameters of the run
    queue,    \* Simulator.run: the priority queue of (prio, idx, state) entries
    step,     \* Simulator.run: next insertion index
    status,   \* Simulator.run: "running", "returned" or "failed"
    final,    \* Simulator.run: the state the run returned at
    mach,     \* Machine.run: its local variables and the cores
    tset      \* a TransactionSet under construction and a compatible() call on it

vars == <<trs, cfg, queue, step, status, final, mach, tset>>

(***************************************************************************)
(* Bounds of the model.                                                    *)
(***************************************************************************)
MaxTrans == 2
MaxTemplates == 3
MaxAddr == 2
MaxSize == 2
MaxSetLen == 1
MaxTime == 2
MaxCores == 2
MaxOpTime == 1
MaxPool == 1
MaxQueue == 1
MaxSchedules == 2
MaxBatch == 2

None == -1

Addr == 0..MaxAddr

Min(S) == CHOOSE x \in S : \A y \in S : x <= y
Max(S) == CHOOSE x \in S : \A y \in S : x >= y

RECURSIVE SumOver(_, _)
SumOver(f, S) ==
    IF S = {} THEN 0
    ELSE LET x == CHOOSE y \in S : TRUE IN f[x] + SumOver(f, S \ {x})

\* the elements of a set of integers in increasing order
RECURSIVE ascending(_)
ascending(S) ==
    IF S = {} THEN << >> ELSE << Min(S) >> \o ascending(S \ {Min(S)})

\* every order in which a Python set of transactions may be iterated
Orders(S) ==
    {s \in [1..Cardinality(S) -> S] : \A i, j \in DOMAIN s : i # j => s[i] # s[j]}

(***************************************************************************)
(* Transactions.  trs[t] holds the addresses and the time of the t-th       *)
(* transaction of the source.  A Transaction object carries its id, its    *)
(* time and its two address sets as the set maker represents them: the     *)
(* addresses themselves with exact sets, the names (slots of the renaming  *)
(* table) with fixed-size sets.                                            *)
(***************************************************************************)
Transaction ==
    {t \in [read_set : SUBSET Addr, write_set : SUBSET Addr, time : 1..MaxTime] :
        Cardinality(t.read_set) + Cardinality(t.write_set) <= MaxSetLen}

Sources == UNION {[1..n -> Transaction] : n \in 0..MaxTrans}

\* TransactionGenerator: each template with the slice of addresses it gets
GeneratorSources == UNION {[1..n -> Transaction] : n \in 0..MaxTemplates}

\* the Transaction object with the given sets
Named(t, read_set, write_set) ==
    [id |-> t, read_set |-> read_set, write_set |-> write_set, time |-> trs[t].time]

\* the Transaction object with exact sets
Tr(t) == Named(t, trs[t].read_set, trs[t].write_set)

Ids == DOMAIN trs

Times == [t \in Ids |-> trs[t].time]

\* TransactionGeneratorFactory.total_time: serial execution time
total_time == SumOver(Times, Ids)

(***************************************************************************)
(* TransactionSet: the transactions and the unions of their sets.          *)
(***************************************************************************)
EmptySet == [transactions |-> {}, read_set |-> {}, write_set |-> {}]

\* add that replaces the write union by the write set of the transaction
add_assign(ts, t) ==
    [transactions |-> ts.transactions \cup {t},
     read_set     |-> t.read_set \cup ts.read_set,
     write_set    |-> t.write_set]

add(ts, t) ==
    [transactions |-> ts.transactions \cup {t},
     read_set     |-> t.read_set \cup ts.read_set,
     write_set    |-> t.write_set \cup ts.write_set]

RECURSIVE TransactionSet(_)
TransactionSet(S) ==
    IF S = {} THEN EmptySet
    ELSE LET t == CHOOSE x \in S : TRUE IN add(TransactionSet(S \ {t}), t)

\* compatible without the write-write test
compatible_no_ww(ts, x) ==
    IF ts.transactions = {} THEN TRUE
    ELSE /\ x.read_set \cap ts.write_set = {}
         /\ x.write_set \cap ts.read_set = {}

\* compatible without the test of the reads against the writes of the set
compatible_no_rw(ts, x) ==
    IF ts.transactions = {} THEN TRUE
    ELSE /\ x.write_set \cap ts.read_set = {}
         /\ x.write_set \cap ts.write_set = {}

\* compatible that also refuses shared readers
compatible_rr(ts, x) ==
    IF ts.transactions = {} THEN TRUE
    ELSE /\ x.read_set \cap ts.write_set = {}
         /\ x.write_set \cap ts.read_set = {}
         /\ x.write_set \cap ts.write_set = {}
         /\ x.read_set \cap ts.read_set = {}

\* x is anything with a read_set and a write_set: a transaction or,
\* in the Tournament scheduler, another TransactionSet
compatible(ts, x) ==
    IF ts.transactions = {} THEN TRUE
    ELSE /\ x.read_set \cap ts.write_set = {}
         /\ x.write_set \cap ts.read_set = {}
         /\ x.write_set \cap ts.write_set = {}

\* model.py: the element-wise test of the earlier TransactionSet
compatible_loop(ts, x) ==
    /\ \A read_obj \in x.read_set : read_obj \notin ts.write_set
    /\ \A write_obj \in x.write_set :
          write_obj \notin ts.read_set /\ write_obj \notin ts.write_set

\* t1 |= t2 : MutableSet.__ior__ adds every transaction of t2 to t1
RECURSIVE ior(_, _)
ior(t1, t2) ==
    IF t2.transactions = {} THEN t1
    ELSE LET t == CHOOSE x \in t2.transactions : TRUE
         IN ior(add(t1, t), [t2 EXCEPT !.transactions = @ \ {t}])

(***************************************************************************)
(* A TransactionSet built by add calls, then asked compatible(x).          *)
(***************************************************************************)
Unused ==
    [set |-> EmptySet, called |-> FALSE,
     asked |-> [read_set |-> {}, write_set |-> {}, time |-> 1],
     answer |-> FALSE, answer_loop |-> FALSE]

SetAdd ==
    /\ ~tset.called
    /\ \E t \in Ids : tset' = [tset EXCEPT !.set = add(@, Tr(t))]
    /\ UNCHANGED <<trs, cfg, queue, step, status, final, mach>>

\* t1 |= t2 on the set, t2 built from an iterable of transactions
SetMerge ==
    /\ ~tset.called
    /\ \E S \in SUBSET Ids :
          tset' = [tset EXCEPT !.set = ior(@, TransactionSet({Tr(t) : t \in S}))]
    /\ UNCHANGED <<trs, cfg, queue, step, status, final, mach>>

SetCompatible ==
    /\ ~tset.called
    /\ \E x \in Transaction :
          tset' = [tset EXCEPT !.called = TRUE,
                               !.asked = x,
                               !.answer = compatible(tset.set, x),
                               !.answer_loop = compatible_loop(tset.set, x)]
    /\ UNCHANGED <<trs, cfg, queue, step, status, final, mach>>

(***************************************************************************)
(* The schedulers.  schedule(ongoing, pending, max_count) returns a list   *)
(* of results; pending is given in the order in which it is iterated.      *)
(* A result is the candidate set, the number of its members that           *)
(* itertools.islice keeps (None: all of them) and the elapsed time.        *)
(***************************************************************************)
Result(candidates, keep, time) ==
    [candidates |-> candidates, keep |-> keep, time |-> time]

\* GreedyPass that ends one member after the limit
RECURSIVE GreedyPass_late(_, _, _, _)
GreedyPass_late(ongoing, pending, max_count, candidates) ==
    IF pending = << >> THEN candidates
    ELSE LET tr == Head(pending) IN
         IF compatible(ongoing, tr) /\ compatible(candidates, tr)
         THEN LET grown == add(candidates, tr) IN
              IF max_count # None /\ Cardinality(grown.transactions) = max_count + 1
              THEN grown
              ELSE GreedyPass_late(ongoing, Tail(pending), max_count, grown)
         ELSE GreedyPass_late(ongoing, Tail(pending), max_count, candidates)

\* GreedyPass that ends at the first transaction it cannot include
RECURSIVE GreedyPass_stop(_, _, _, _)
GreedyPass_stop(ongoing, pending, max_count, candidates) ==
    IF pending = << >> THEN candidates
    ELSE LET tr == Head(pending) IN
         IF compatible(ongoing, tr) /\ compatible(candidates, tr)
         THEN LET grown == add(candidates, tr) IN
              IF max_count # None /\ Cardinality(grown.transactions) = max_count
              THEN grown
              ELSE GreedyPass_stop(ongoing, Tail(pending), max_count, grown)
         ELSE candidates

RECURSIVE GreedyPass(_, _, _, _)
GreedyPass(ongoing, pending, max_count, candidates) ==
    IF pending = << >> THEN candidates
    ELSE LET tr == Head(pending) IN
         IF compatible(ongoing, tr) /\ compatible(candidates, tr)
         THEN LET grown == add(candidates, tr) IN
              IF max_count # None /\ Cardinality(grown.transactions) = max_count
              THEN grown
              ELSE GreedyPass(ongoing, Tail(pending), max_count, grown)
         ELSE GreedyPass(ongoing, Tail(pending), max_count, candidates)

GreedySchedule(ongoing, pending, max_count) ==
    << Result(GreedyPass(ongoing, pending, max_count, EmptySet), None, cfg.op_time) >>

\* the candidate sets in the order the generator yields them
RECURSIVE all_candidate_sets(_, _, _, _)
all_candidate_sets(ongoing, pending_list, prefix, i) ==
    IF i = Len(pending_list) + 1 THEN << prefix >>
    ELSE LET tr == pending_list[i] IN
         all_candidate_sets(ongoing, pending_list, prefix, i + 1)
         \o (IF compatible(ongoing, tr) /\ compatible(prefix, tr)
             THEN all_candidate_sets(ongoing, pending_list, add(prefix, tr), i + 1)
             ELSE << >>)

\* heapq.nlargest(n, seq, key=len): a stable sort by decreasing size, cut at n
RECURSIVE BySize(_, _)
BySize(seq, k) ==
    IF k < 0 THEN << >>
    ELSE SelectSeq(seq, LAMBDA c : Cardinality(c.transactions) = k) \o BySize(seq, k - 1)

\* nlargest that keeps the first n sets in the order they are yielded
nlargest_first(n, seq) ==
    SubSeq(seq, 1, IF n < Len(seq) THEN n ELSE Len(seq))

nlargest(n, seq) ==
    LET sorted == BySize(seq, Len(seq)) IN
    SubSeq(sorted, 1, IF n < Len(sorted) THEN n ELSE Len(sorted))

MaximalSchedule(ongoing, pending, max_count) ==
    LET out == nlargest(cfg.n_schedules,
                        all_candidate_sets(ongoing, pending, EmptySet, 1))
    IN [i \in DOMAIN out |-> Result(out[i], max_count, cfg.op_time)]

\* a halving round that merges every pair
TournamentRound_merge(sets) ==
    [i \in 1..((Len(sets) + 1) \div 2) |->
        LET t1 == sets[2 * i - 1] IN
        IF 2 * i <= Len(sets) THEN ior(t1, sets[2 * i]) ELSE t1]

\* one halving round: sets[::2] merged with sets[1::2] where compatible
TournamentRound(sets) ==
    [i \in 1..((Len(sets) + 1) \div 2) |->
        LET t1 == sets[2 * i - 1] IN
        IF 2 * i <= Len(sets) /\ compatible(t1, sets[2 * i])
        THEN ior(t1, sets[2 * i])
        ELSE t1]

\* TournamentRounds that counts the rounds of a tournament as one
RECURSIVE TournamentRounds_once(_, _)
TournamentRounds_once(sets, rounds) ==
    IF Len(sets) > 1 THEN TournamentRounds_once(TournamentRound(sets), 1)
    ELSE [sets |-> sets, rounds |-> rounds]

RECURSIVE TournamentRounds(_, _)
TournamentRounds(sets, rounds) ==
    IF Len(sets) > 1 THEN TournamentRounds(TournamentRound(sets), rounds + 1)
    ELSE [sets |-> sets, rounds |-> rounds]

TournamentSchedule(ongoing, pending, max_count) ==
    LET filtered == SelectSeq(pending, LAMBDA tr : compatible(ongoing, tr))
        singles  == [i \in DOMAIN filtered |-> add(EmptySet, filtered[i])]
        played   == TournamentRounds(singles, 0)
        op_time  == IF cfg.is_pipelined THEN cfg.op_time
                    ELSE cfg.op_time * (IF played.rounds > 1 THEN played.rounds ELSE 1)
    IN IF played.sets = << >> THEN << Result(EmptySet, None, op_time) >>
       ELSE << Result(played.sets[1], max_count, op_time) >>

\* schedule ignoring the room left in the execution queue
schedule_unbounded(ongoing, pending, max_count) ==
    CASE cfg.sched = "greedy"     -> GreedySchedule(ongoing, pending, None)
      [] cfg.sched = "maximal"    -> MaximalSchedule(ongoing, pending, None)
      [] cfg.sched = "tournament" -> TournamentSchedule(ongoing, pending, None)

schedule(ongoing, pending, max_count) ==
    CASE cfg.sched = "greedy"     -> GreedySchedule(ongoing, pending, max_count)
      [] cfg.sched = "maximal"    -> MaximalSchedule(ongoing, pending, max_count)
      [] cfg.sched = "tournament" -> TournamentSchedule(ongoing, pending, max_count)

\* the batches TransactionSet(itertools.islice(candidates, keep)) can be
Batches(res) ==
    IF res.keep = None \/ res.keep >= Cardinality(res.candidates.transactions)
    THEN {res.candidates.transactions}
    ELSE {b \in SUBSET res.candidates.transactions : Cardinality(b) = res.keep}

(***************************************************************************)
(* The renaming table of the fixed-size sets: size slots of (obj, count),  *)
(* probed with hash_fn(i, obj) for i = 0 .. n_hash_funcs - 1.              *)
(***************************************************************************)
Slot(obj, count) == [obj |-> obj, count |-> count]

EmptyTable == [h \in 0..(cfg.size - 1) |-> Slot(None, 0)]

\* FiniteAddressSetMakerFactory: the default hash function
hash_fn(i, x) == (x + i) % cfg.size

\* __getitem__: the name of obj, taking a slot or one more reference to it;
\* h is None when the table cannot accept obj (KeyError)
RECURSIVE getitem(_, _, _)
getitem(table, obj, i) ==
    IF i = cfg.n_hash_funcs THEN [h |-> None, table |-> table]
    ELSE LET h == hash_fn(i, obj) IN
         IF table[h].obj = None
         THEN [h |-> h, table |-> [table EXCEPT ![h] = Slot(obj, 1)]]
         ELSE IF table[h].obj = obj
         THEN [h |-> h, table |-> [table EXCEPT ![h] = Slot(obj, table[h].count + 1)]]
         ELSE getitem(table, obj, i + 1)

\* delitem that leaves the object in the slot it has emptied
RECURSIVE delitem_named(_, _, _)
delitem_named(table, obj, i) ==
    IF i = cfg.n_hash_funcs THEN [ok |-> FALSE, table |-> table]
    ELSE LET h == hash_fn(i, obj)
             prev_obj == table[h].obj
             count == table[h].count
         IN IF ~((prev_obj # None /\ count > 0) \/ (prev_obj = None /\ count = 0))
            THEN [ok |-> FALSE, table |-> table]
            ELSE IF prev_obj = obj /\ count = 1
            THEN [ok |-> TRUE, table |-> [table EXCEPT ![h] = Slot(obj, 0)]]
            ELSE IF prev_obj = obj /\ count > 1
            THEN [ok |-> TRUE, table |-> [table EXCEPT ![h] = Slot(obj, count - 1)]]
            ELSE delitem_named(table, obj, i + 1)

\* __delitem__: drops one reference to obj; not ok on a failed assertion or
\* when no probed slot holds obj (KeyError)
RECURSIVE delitem(_, _, _)
delitem(table, obj, i) ==
    IF i = cfg.n_hash_funcs THEN [ok |-> FALSE, table |-> table]
    ELSE LET h == hash_fn(i, obj)
             prev_obj == table[h].obj
             count == table[h].count
         IN IF ~((prev_obj # None /\ count > 0) \/ (prev_obj = None /\ count = 0))
            THEN [ok |-> FALSE, table |-> table]
            ELSE IF prev_obj = obj /\ count = 1
            THEN [ok |-> TRUE, table |-> [table EXCEPT ![h] = Slot(None, 0)]]
            ELSE IF prev_obj = obj /\ count > 1
            THEN [ok |-> TRUE, table |-> [table EXCEPT ![h] = Slot(obj, count - 1)]]
            ELSE delitem(table, obj, i + 1)

\* del table[obj] for each of the objects
RECURSIVE delete_each(_, _)
delete_each(table, objects) ==
    IF objects = << >> THEN [ok |-> TRUE, table |-> table]
    ELSE LET done == delitem(table, Head(objects), 0) IN
         IF done.ok THEN delete_each(done.table, Tail(objects)) ELSE done

\* FiniteAddressSet.__init__: names the objects one by one; when one is
\* refused the objects inserted so far are deleted again (ValueError)
RECURSIVE FiniteAddressSet(_, _, _, _)
FiniteAddressSet(table, objects, inserted, bits) ==
    IF objects = << >> THEN [ok |-> TRUE, table |-> table, bits |-> bits]
    ELSE LET got == getitem(table, Head(objects), 0) IN
         IF got.h = None
         THEN [ok |-> FALSE, table |-> delete_each(table, ascending(inserted)).table,
               bits |-> {}]
         ELSE FiniteAddressSet(got.table, Tail(objects),
                               inserted \cup {Head(objects)}, bits \cup {got.h})

\* free dropping the references of the read set only
free_reads(table, tr) ==
    IF cfg.size = None THEN [ok |-> TRUE, table |-> table]
    ELSE delete_each(table, ascending(trs[tr.id].read_set))

\* AddressSetMaker.free: nothing with exact sets; with fixed-size sets one
\* reference less for every object of the read set and of the write set
free(table, tr) ==
    IF cfg.size = None THEN [ok |-> TRUE, table |-> table]
    ELSE delete_each(table, ascending(trs[tr.id].read_set)
                            \o ascending(trs[tr.id].write_set))

(***************************************************************************)
(* MachineState.  incoming is the source: tr_index counts the transactions *)
(* it has drawn, overflowed lists the templates the renaming table has     *)
(* refused.  reset_overflows has no caller, so the deferred list of the    *)
(* TransactionGenerator stays empty and is left out.  The set maker of a   *)
(* state is its renaming table (no table with exact sets).  cores holds    *)
(* (clock, transaction).                                                   *)
(***************************************************************************)
MachineState(tr_index, overflowed, table, pending, scheduled, cores, clock) ==
    [tr_index |-> tr_index, overflowed |-> overflowed, table |-> table,
     pending |-> pending, scheduled |-> scheduled, cores |-> cores, clock |-> clock]

NoState == MachineState(0, << >>, << >>, {}, {}, {}, 0)

start_state ==
    MachineState(0, << >>, IF cfg.size = None THEN << >> ELSE EmptyTable, {}, {}, {}, 0)

\* len(state.incoming)
incoming_len(st) == Len(trs) - st.tr_index + Len(st.overflowed)

\* MachineState.__bool__ is false: an end state
terminal(st) ==
    incoming_len(st) = 0 /\ st.pending = {} /\ st.scheduled = {} /\ st.cores = {}

running(st) == {c.transaction : c \in st.cores}

\* state.cores[0].clock, the root of the heap
first_core_clock(st) == Min({c.clock : c \in st.cores})

\* wait_clock that leaves the clock where it is
wait_clock_stay(st) == st

\* wait_clock that lets a second pass before it looks at the cores
wait_clock_late(st) ==
    IF st.clock + 1 < first_core_clock(st)
    THEN [st EXCEPT !.clock = first_core_clock(st)]
    ELSE st

\* wait_clock adding the core's clock to the clock
wait_clock_add(st) ==
    IF st.clock < first_core_clock(st)
    THEN [st EXCEPT !.clock = @ + first_core_clock(st)]
    ELSE st

\* "Scheduler needs to wait until at least one transaction finishes."
wait_clock(st) ==
    IF st.clock < first_core_clock(st)
    THEN [st EXCEPT !.clock = first_core_clock(st)]
    ELSE st

(***************************************************************************)
(* AbstractScheduler.run.  An outcome is either an exception or the list   *)
(* of successor states; the set of outcomes ranges over the iteration      *)
(* orders of the Python sets involved.                                     *)
(***************************************************************************)
Raised == [raised |-> TRUE, states |-> << >>]
Returned(states) == [raised |-> FALSE, states |-> states]

\* overflow that does not record the template
overflow_forget(st, t) == st

\* the template t could not be named: it is recorded as overflowed
overflow(st, t) == [st EXCEPT !.overflowed = Append(@, t)]

\* send that leaves the read set in the table when the write set is refused
send_keep_reads(st) ==
    LET t     == st.tr_index + 1
        drawn == [st EXCEPT !.tr_index = t]
    IN IF cfg.size = None THEN [made |-> TRUE, st |-> drawn, tr |-> Tr(t)]
       ELSE
         LET reads == FiniteAddressSet(st.table, ascending(trs[t].read_set), {}, {}) IN
         IF ~reads.ok
         THEN [made |-> FALSE, st |-> overflow([drawn EXCEPT !.table = reads.table], t)]
         ELSE
           LET writes == FiniteAddressSet(reads.table, ascending(trs[t].write_set),
                                          {}, {}) IN
           IF ~writes.ok
           THEN [made |-> FALSE, st |-> overflow([drawn EXCEPT !.table = writes.table], t)]
           ELSE [made |-> TRUE, st |-> [drawn EXCEPT !.table = writes.table],
                 tr |-> Named(t, reads.bits, writes.bits)]

\* incoming.send(intset_maker): the next transaction of the source, or no
\* transaction (made is false) when the renaming table refuses its
\* addresses; the read set is freed again when the write set is refused
send(st) ==
    LET t     == st.tr_index + 1
        drawn == [st EXCEPT !.tr_index = t]
    IN IF cfg.size = None THEN [made |-> TRUE, st |-> drawn, tr |-> Tr(t)]
       ELSE
         LET reads == FiniteAddressSet(st.table, ascending(trs[t].read_set), {}, {}) IN
         IF ~reads.ok
         THEN [made |-> FALSE, st |-> overflow([drawn EXCEPT !.table = reads.table], t)]
         ELSE
           LET writes == FiniteAddressSet(reads.table, ascending(trs[t].write_set),
                                          {}, {}) IN
           IF ~writes.ok
           THEN LET undone == delete_each(writes.table, ascending(trs[t].read_set)).table
                IN [made |-> FALSE, st |-> overflow([drawn EXCEPT !.table = undone], t)]
           ELSE [made |-> TRUE, st |-> [drawn EXCEPT !.table = writes.table],
                 tr |-> Named(t, reads.bits, writes.bits)]

\* fill_pending drawing from the source whatever the pool holds
RECURSIVE fill_pending_all(_, _)
fill_pending_all(st, missing) ==
    IF st.tr_index = Len(trs) THEN st
    ELSE LET sent == send(st) IN
         IF sent.made
         THEN fill_pending_all([sent.st EXCEPT !.pending = @ \cup {sent.tr}], missing)
         ELSE fill_pending_all(sent.st, missing + 1)

\* "Fill up pending pool."
RECURSIVE fill_pending(_, _)
fill_pending(st, missing) ==
    IF \/ cfg.pool_size # None /\ Cardinality(st.pending) + missing >= cfg.pool_size
       \/ st.tr_index = Len(trs)
    THEN st
    ELSE LET sent == send(st) IN
         IF sent.made
         THEN fill_pending([sent.st EXCEPT !.pending = @ \cup {sent.tr}], missing)
         ELSE fill_pending(sent.st, missing + 1)

\* new_state assigning the elapsed time to the clock
new_state_assign(st, scheduled, time) ==
    LET moved == [st EXCEPT !.clock = time] IN
    IF scheduled # {}
    THEN [moved EXCEPT !.scheduled = @ \cup scheduled, !.pending = @ \ scheduled]
    ELSE wait_clock(moved)

\* new_state leaving the batch in the pending pool
new_state_keep(st, scheduled, time) ==
    LET moved == [st EXCEPT !.clock = @ + time] IN
    IF scheduled # {}
    THEN [moved EXCEPT !.scheduled = @ \cup scheduled]
    ELSE wait_clock(moved)

\* the successor for one returned (scheduled, time) pair
new_state(st, scheduled, time) ==
    LET moved == [st EXCEPT !.clock = @ + time] IN
    IF scheduled # {}
    THEN [moved EXCEPT !.scheduled = @ \cup scheduled, !.pending = @ \ scheduled]
    ELSE wait_clock(moved)

\* the executing and the scheduled transactions
ongoing_set(st) == TransactionSet(running(st) \cup st.scheduled)

scheduler_run(st) ==
    IF cfg.queue_size = Cardinality(st.scheduled)
    THEN IF st.cores = {} THEN {Raised} ELSE {Returned(<< wait_clock(st) >>)}
    ELSE
      LET filled == fill_pending(st, 0) IN
      IF filled.pending = {}
      THEN IF filled.cores = {} THEN {Raised} ELSE {Returned(<< wait_clock(filled) >>)}
      ELSE
        LET ongoing   == ongoing_set(filled)
            max_count == IF cfg.queue_size = None THEN None
                         ELSE cfg.queue_size - Cardinality(filled.scheduled)
        IN UNION {
             LET res == schedule(ongoing, order, max_count) IN
             { IF \E i \in DOMAIN res : pick[i] = {} /\ filled.cores = {}
               THEN Raised
               ELSE Returned([i \in DOMAIN res |-> new_state(filled, pick[i], res[i].time)])
               : pick \in {f \in [DOMAIN res -> SUBSET filled.pending] :
                             \A i \in DOMAIN res : f[i] \in Batches(res[i])} }
             : order \in Orders(filled.pending) }

(***************************************************************************)
(* The executor: starts scheduled transactions on the free cores, each     *)
(* with completion clock state.clock + tr.time.                            *)
(***************************************************************************)
Core(clock, transaction) == [clock |-> clock, transaction |-> transaction]

\* start_on_cores with the completion clock tr.time
start_on_cores_rel(st, chosen) ==
    [st EXCEPT !.scheduled = @ \ chosen,
               !.cores = @ \cup {Core(tr.time, tr) : tr \in chosen}]

start_on_cores(st, chosen) ==
    [st EXCEPT !.scheduled = @ \ chosen,
               !.cores = @ \cup {Core(st.clock + tr.time, tr) : tr \in chosen}]

\* executor_run starting every scheduled transaction
executor_run_all(st) == {<< start_on_cores(st, st.scheduled) >>}

executor_run(st) ==
    LET idle  == cfg.core_count - Cardinality(st.cores)
        count == IF Cardinality(st.scheduled) < idle
                 THEN Cardinality(st.scheduled) ELSE idle
    IN {<< start_on_cores(st, chosen) >> :
            chosen \in {c \in SUBSET st.scheduled : Cardinality(c) = count}}

\* core completion: the earliest core is popped from the heap and its
\* transaction is freed; not ok when free raises
complete_core(st) ==
    { LET freed == free(st.table, c.transaction)
      IN [ok |-> freed.ok,
          st |-> [st EXCEPT !.cores = @ \ {c}, !.table = freed.table]]
      : c \in {d \in st.cores : d.clock = first_core_clock(st)} }

(***************************************************************************)
(* The driver: a best-first walk over a queue of (prio, idx, state).       *)
(***************************************************************************)
Entry(prio, idx, st) == [prio |-> prio, idx |-> idx, st |-> st]

\* the key a state is pushed with
priority(st) ==
    IF st.cores = {} THEN st.clock
    ELSE IF st.clock < first_core_clock(st) THEN st.clock ELSE first_core_clock(st)

\* heapq.heappop: least (prio, idx)
top ==
    CHOOSE e \in queue : \A f \in queue :
        e.prio < f.prio \/ (e.prio = f.prio /\ e.idx <= f.idx)

\* MachineState.copy copies the set maker with copy.copy, so the states of
\* a walk all hold the one table list the first maker was created with: the
\* entries waiting in the queue see the table as the last step left it
shared(entries, states) ==
    IF cfg.size = None \/ states = << >> THEN entries
    ELSE {[e EXCEPT !.st.table = states[1].table] : e \in entries}

\* push that does not advance the insertion index
push_stale(states) ==
    /\ queue' = shared(queue \ {top}, states)
                  \cup {Entry(priority(states[i]), step + i - 1, states[i]) : i \in DOMAIN states}
    /\ step' = step

push(states) ==
    /\ queue' = shared(queue \ {top}, states)
                  \cup {Entry(priority(states[i]), step + i - 1, states[i]) : i \in DOMAIN states}
    /\ step' = step + Len(states)

can_execute(st) == Cardinality(st.cores) < cfg.core_count /\ st.scheduled # {}
\* can_complete that needs the core's clock to be behind the state's clock
can_complete_behind(st) == st.cores # {} /\ first_core_clock(st) < st.clock

can_complete(st) == st.cores # {} /\ first_core_clock(st) <= st.clock

Popping == status = "running" /\ queue # {}

DriverReturn ==
    /\ Popping
    /\ terminal(top.st)
    /\ status' = "returned"
    /\ final' = top.st
    /\ queue' = queue \ {top}
    /\ UNCHANGED <<trs, cfg, step, mach, tset>>

DriverExecute ==
    /\ Popping
    /\ ~terminal(top.st)
    /\ can_execute(top.st)
    /\ \E states \in executor_run(top.st) : push(states)
    /\ UNCHANGED <<trs, cfg, status, final, mach, tset>>

DriverComplete ==
    /\ Popping
    /\ ~terminal(top.st)
    /\ ~can_execute(top.st)
    /\ can_complete(top.st)
    /\ \E out \in complete_core(top.st) :
          IF out.ok
          THEN /\ push(<< out.st >>)
               /\ UNCHANGED <<status, final>>
          ELSE /\ status' = "failed"
               /\ final' = top.st
               /\ UNCHANGED <<queue, step>>
    /\ UNCHANGED <<trs, cfg, mach, tset>>

DriverSchedule ==
    /\ Popping
    /\ ~terminal(top.st)
    /\ ~can_execute(top.st)
    /\ ~can_complete(top.st)
    /\ \E out \in scheduler_run(top.st) :
          IF out.raised
          THEN /\ status' = "failed"
               /\ final' = top.st
               /\ UNCHANGED <<queue, step>>
          ELSE /\ push(out.states)
               /\ UNCHANGED <<status, final>>
    /\ UNCHANGED <<trs, cfg, mach, tset>>

\* the schedulers that return one successor
SchedulerKinds ==
    {[sched |-> "greedy", n_schedules |-> 1, is_pipelined |-> FALSE],
     [sched |-> "maximal", n_schedules |-> 1, is_pipelined |-> FALSE]}
    \cup {[sched |-> "tournament", n_schedules |-> 1, is_pipelined |-> p] :
             p \in BOOLEAN}

\* size is None with exact sets, the size of the renaming table otherwise
Config(k, o, p, q, c, s) ==
    [sched |-> k.sched, n_schedules |-> k.n_schedules, is_pipelined |-> k.is_pipelined,
     op_time |-> o, pool_size |-> p, queue_size |-> q, core_count |-> c,
     size |-> s, n_hash_funcs |-> s]

\* the Maximal scheduler with several schedules makes the walk branch; it
\* is run with an unbounded pool and queue
Configs ==
    {Config(k, o, p, q, c, None) :
        k \in SchedulerKinds, o \in 0..MaxOpTime, p \in {None} \cup 1..MaxPool,
        q \in {None} \cup 1..MaxQueue, c \in 1..MaxCores}
    \cup {Config([sched |-> "maximal", n_schedules |-> n, is_pipelined |-> FALSE],
                 o, None, None, MaxCores, None) :
             n \in 2..MaxSchedules, o \in 0..MaxOpTime}

\* runs with fixed-size sets: the Greedy scheduler, an unbounded queue, a
\* renaming table with as many hash functions as slots (the default)
FiniteConfigs ==
    {Config([sched |-> "greedy", n_schedules |-> 1, is_pipelined |-> FALSE],
            o, p, None, c, s) :
        o \in 0..MaxOpTime, p \in {None} \cup 1..MaxPool, c \in 1..MaxCores,
        s \in 1..MaxSize}

\* runs in which the execution queue fills up while the source still holds
\* transactions: three writers, a pool and a queue of one
QueueSources == [1..MaxTemplates -> {t \in Transaction : t.read_set = {}}]

QueueConfigs ==
    {Config(k, o, 1, 1, c, None) :
        k \in SchedulerKinds, o \in 0..MaxOpTime, c \in 1..MaxCores}

Idle == [pc |-> "idle"]

Init ==
    /\ \/ trs \in Sources /\ cfg \in Configs
       \/ trs \in GeneratorSources /\ cfg \in FiniteConfigs
       \/ trs \in QueueSources /\ cfg \in QueueConfigs
    /\ queue = {Entry(0, 0, start_state)}
    /\ step = 1
    /\ status = "running"
    /\ final = start_state
    /\ mach = Idle
    /\ tset = Unused

Next == DriverReturn \/ DriverExecute \/ DriverComplete \/ DriverSchedule

Spec == Init /\ [][Next]_vars

\* walks that branch with fixed-size sets: the Maximal scheduler with two
\* schedules and an unbounded pool, so that the source is drawn once, before
\* the first branch
BranchConfigs ==
    {Config([sched |-> "maximal", n_schedules |-> 2, is_pipelined |-> FALSE],
            o, None, None, c, s) :
        o \in 0..MaxOpTime, c \in 1..MaxCores, s \in 1..MaxSize}

InitBranch ==
    /\ trs \in Sources
    /\ cfg \in BranchConfigs
    /\ queue = {Entry(0, 0, start_state)}
    /\ step = 1
    /\ status = "running"
    /\ final = start_state
    /\ mach = Idle
    /\ tset = Unused

SpecBranch == InitBranch /\ [][Next]_vars

(***************************************************************************)
(* Properties of the driver.                                               *)
(***************************************************************************)
\* the true address sets of the transactions a and b of the source conflict
\* (w-w, w-r or r-w)
conflict(a, b) ==
    \/ trs[a].write_set \cap trs[b].write_set # {}
    \/ trs[a].write_set \cap trs[b].read_set # {}
    \/ trs[a].read_set \cap trs[b].write_set # {}

\* every machine state the driver holds or has returned
States == {e.st : e \in queue} \cup {final}

\* the states pushed by the step that leads to the primed state
Pushed == {e.st : e \in {f \in queue' : f.idx >= step}}

count(st) ==
    incoming_len(st) + Cardinality(st.pending) + Cardinality(st.scheduled)
    + Cardinality(st.cores)

\* C1 (as claimed): in every state of the walk, the transactions executing
\* on cores are pairwise conflict-free on their true address sets.
C1_NoConcurrentConflict ==
    \A st \in States : \A a, b \in running(st) : a # b => ~conflict(a.id, b.id)

\* C3: two conflicting transactions never execute at overlapping times (in
\* every run with exact sets and in every run of two transactions), and with
\* zero scheduling cost a run of two such transactions on two cores ends at
\* the sum of their times.
C3_Case ==
    Len(trs) = 2 /\ conflict(1, 2) /\ cfg.op_time = 0 /\ cfg.core_count = 2

C4_Case ==
    /\ cfg.op_time = 0
    /\ cfg.pool_size = None
    /\ cfg.core_count >= Len(trs)
    /\ \A a, b \in Ids : a # b => ~conflict(a, b)

C4_AllParallel ==
    C4_Case =>
        /\ \A st \in States : \A c \in st.cores : c.clock = c.transaction.time
        /\ status = "returned" =>
              final.clock = (IF Ids = {} THEN 0 ELSE Max({trs[t].time : t \in Ids}))

C4_Witness ==
    /\ C4_Case /\ status = "returned" /\ Len(trs) = 2
    /\ trs[1].time # trs[2].time
    /\ trs[1].read_set \cap trs[2].read_set # {}

\* C6 (as claimed): with exact sets the run never fails, and when it returns
\* the state is terminal: incoming, pending, scheduled and cores are empty.
C6_ReturnsTerminal ==
    cfg.size = None =>
        /\ status # "failed"
        /\ status = "returned" => terminal(final)

\* C7 (as claimed): the clock of the returned state is at most the sum of
\* the times of all transactions, for every op_time.
C7_SerialBound == status = "returned" => final.clock <= total_time

\* C7 (amended): with op_time = 0 the clock of the returned state is at most
\* the sum of the times of all transactions.
C7_SerialBoundNoCost ==
    (status = "returned" /\ cfg.op_time = 0) => final.clock <= total_time

C7_Witness ==
    /\ status = "returned" /\ cfg.op_time = 0 /\ Len(trs) = 2
    /\ final.clock < total_time

\* C8: the clock of a successor is never smaller than the clock of the state
\* it was produced from.
C8_ClockMonotone ==
    [][Popping => \A st \in Pushed : st.clock >= top.st.clock]_vars

C8_Witness ==
    \E e \in queue : e.idx > 0 /\ e.st.clock > 0 /\ e.st.pending # {} /\ e.st.cores # {}

\* C10: the number of transactions in incoming (overflowed templates
\* included), pending, scheduled and cores of a successor is that of its
\* predecessor minus the transactions that completed in the step.
C10_Conservation ==
    [][Popping => \A st \in Pushed :
          count(st) = count(top.st) - Cardinality(running(top.st) \ running(st))]_vars

C10_Witness ==
    \E e \in queue :
        /\ e.idx > 2 /\ e.st.overflowed # << >> /\ e.st.cores # {}
        /\ e.st.tr_index = Len(trs) /\ count(e.st) < Len(trs)

\* the ids of a set of transactions
ids(S) == {tr.id : tr \in S}

\* the templates drawn from the source between the states st and nx
fresh(st, nx) == (st.tr_index + 1)..nx.tr_index

\* C11: a transaction is in at most one of: not yet produced, pending,
\* scheduled, executing on a core; a successor takes the transactions it
\* starts from the scheduled ones, the ones it schedules from the pending or
\* newly produced ones, and its new pending ones from the source, so none is
\* executed twice.
C11_OnePlace ==
    [][Popping => \A st \in Pushed :
          LET P == ids(st.pending)
              S == ids(st.scheduled)
              R == ids(running(st))
          IN /\ P \cap S = {} /\ P \cap R = {} /\ S \cap R = {}
             /\ Cardinality(P) = Cardinality(st.pending)
             /\ Cardinality(S) = Cardinality(st.scheduled)
             /\ Cardinality(R) = Cardinality(st.cores)
             /\ (P \cup S \cup R) \subseteq 1..st.tr_index
             /\ \A i \in DOMAIN st.overflowed : st.overflowed[i] \notin (P \cup S \cup R)
             /\ (R \ ids(running(top.st))) \subseteq ids(top.st.scheduled)
             /\ (S \ ids(top.st.scheduled)) \subseteq (ids(top.st.pending) \cup fresh(top.st, st))
             /\ (P \ ids(top.st.pending)) \subseteq fresh(top.st, st)]_vars

C11_Witness ==
    \E e \in queue :
        /\ e.st.pending # {} /\ e.st.scheduled # {} /\ e.st.cores # {}
        /\ e.st.tr_index = Len(trs)

\* C12: in every state of the walk the number of transactions executing on
\* cores is at most core_count.
C12_CoreBound == \A st \in States : Cardinality(st.cores) <= cfg.core_count

C12_Witness ==
    \E e \in queue :
        /\ Cardinality(e.st.cores) = cfg.core_count /\ e.st.scheduled # {}
        /\ cfg.core_count = 2

C14_PoolBound ==
    [][(Popping /\ cfg.pool_size # None) => \A st \in Pushed :
          /\ Cardinality(st.pending) <= cfg.pool_size
          /\ Cardinality(top.st.pending) >= cfg.pool_size
                => st.tr_index = top.st.tr_index]_vars

\* the pool is full, templates are left in the source, and the scheduler
\* has run on the full pool
C14_Witness ==
    /\ cfg.pool_size # None
    /\ \E e \in queue :
          /\ Cardinality(e.st.pending) = cfg.pool_size
          /\ e.st.tr_index < Len(trs)
          /\ e.st.cores # {} /\ e.st.clock > 0 /\ e.idx > 2

\* the transactions created and not yet freed
live(st) == st.pending \cup st.scheduled \cup running(st)

\* C16 (as claimed): with the renaming table, two live transactions whose
\* true address sets conflict have named sets with a non-empty
\* corresponding intersection (write-write, write-read or read-write).
C16_RenamingNoFalseNegative ==
    cfg.size # None =>
        \A st \in States : \A a, b \in live(st) :
            a # b =>
              /\ trs[a.id].write_set \cap trs[b.id].write_set # {}
                    => a.write_set \cap b.write_set # {}
              /\ trs[a.id].write_set \cap trs[b.id].read_set # {}
                    => a.write_set \cap b.read_set # {}

\* the template t can be named in an empty renaming table
fits_empty(t) ==
    LET reads == FiniteAddressSet(EmptyTable, ascending(trs[t].read_set), {}, {})
    IN /\ reads.ok
       /\ FiniteAddressSet(reads.table, ascending(trs[t].write_set), {}, {}).ok

\* C19 (as claimed): a run with the renaming table whose every transaction
\* fits an empty table does not end in the fatal renaming-table error, and
\* when it returns no refused template is left over.
C19_DeferredRetried ==
    (cfg.size # None /\ \A t \in Ids : fits_empty(t)) =>
        /\ status # "failed"
        /\ status = "returned" => final.overflowed = << >>

\* the driver calls scheduler.run on the state st
scheduler_called(st) == ~terminal(st) /\ ~can_execute(st) /\ ~can_complete(st)

\* C21 (as claimed): two calls of scheduler.run on the same state give the
\* same outcome: the same successors, with the same scheduled set, pending
\* set and clock.
C21_Idempotent ==
    (Popping /\ scheduler_called(top.st)) =>
        \A a, b \in scheduler_run(top.st) : a = b

\* the entries pushed by the step that leads to the primed state
PushedEntries == {f \in queue' : f.idx >= step}

C25_InsertionIndex ==
    [][Popping =>
          /\ \A e \in queue : e.idx < step
          /\ \A e \in queue' \ queue : step <= e.idx /\ e.idx < step'
          /\ \A e, f \in queue' : e # f => e.idx # f.idx
          /\ \A f \in queue : f.prio = top.prio => top.idx <= f.idx]_vars

\* two entries of the same priority wait in the queue
C25_Witness ==
    \E e, f \in queue : e # f /\ e.prio = f.prio /\ e.prio > 0 /\ e.st # f.st

\* the driver calls scheduler.run on the popped state and the execution
\* queue is not full, so the pending pool is refilled
refill_called ==
    /\ Popping /\ scheduler_called(top.st)
    /\ cfg.queue_size # Cardinality(top.st.scheduled)

\* C31 (as claimed): the refill ends with every template of the source drawn
\* or with pool_size transactions in pending.
C31_RefillUntilPoolFull ==
    refill_called =>
        LET filled == fill_pending(top.st, 0) IN
        \/ filled.tr_index = Len(trs)
        \/ cfg.pool_size # None /\ Cardinality(filled.pending) >= cfg.pool_size

\* C32: when pending is empty after the refill, scheduler.run fails with no
\* successor if no core is executing, and then the source holds refused
\* templates; if a core is executing it returns one successor with the same
\* pending, scheduled and cores, at clock max(clock, earliest completion).
C32_EmptyPoolAfterRefill ==
    [][(refill_called /\ fill_pending(top.st, 0).pending = {}) =>
          LET st == top.st
              filled == fill_pending(st, 0)
          IN IF st.cores = {}
             THEN /\ status' = "failed" /\ queue' = queue
                  /\ filled.overflowed # << >>
             ELSE /\ status' = status
                  /\ Cardinality(queue' \ queue) = 1
                  /\ \A e \in queue' \ queue :
                        /\ e.st.clock = Max({st.clock, first_core_clock(st)})
                        /\ e.st.pending = st.pending
                        /\ e.st.scheduled = st.scheduled
                        /\ e.st.cores = st.cores
                        /\ e.st.tr_index = filled.tr_index
                        /\ e.st.overflowed = filled.overflowed]_vars

\* the scheduler has waited for the core of a running transaction because
\* the only template left was refused
C32_Witness ==
    \E e \in queue :
        /\ e.st.pending = {} /\ e.st.scheduled = {} /\ e.st.cores # {}
        /\ e.st.overflowed # << >> /\ e.st.tr_index = Len(trs)
        /\ e.st.clock = first_core_clock(e.st) /\ e.st.clock > 0

\* C33: when the driver calls scheduler.run with the execution queue full,
\* one successor is returned: the state itself (no template drawn, the same
\* pending, scheduled and cores) at clock max(clock, earliest completion).
C33_FullQueueWaits ==
    [][(Popping /\ scheduler_called(top.st)
        /\ cfg.queue_size = Cardinality(top.st.scheduled)) =>
          /\ status' = status
          /\ {e.st : e \in queue' \ queue} =
                {[top.st EXCEPT !.clock = Max({@, first_core_clock(top.st)})]}
          /\ Cardinality(queue' \ queue) = 1]_vars

\* the scheduler has waited with a full execution queue and a transaction
\* left in the source
C33_Witness ==
    \E e \in queue :
        /\ cfg.queue_size = Cardinality(e.st.scheduled)
        /\ Cardinality(e.st.cores) = cfg.core_count
        /\ e.st.tr_index < Len(trs)
        /\ e.st.clock = first_core_clock(e.st) /\ e.st.clock > 0
        /\ e.idx = step - 1

\* C35: every successor the driver pushes has a larger clock than the state
\* it was produced from, or fewer transactions in incoming, in pending, in
\* scheduled or on the cores; so no successor equals its predecessor.
C35_StepProgress ==
    [][Popping => \A st \in Pushed :
          /\ \/ st.clock > top.st.clock
             \/ incoming_len(st) < incoming_len(top.st)
             \/ Cardinality(st.pending) < Cardinality(top.st.pending)
             \/ Cardinality(st.scheduled) < Cardinality(top.st.scheduled)
             \/ Cardinality(st.cores) < Cardinality(top.st.cores)
          /\ st # top.st]_vars

\* a scheduler step at no cost that found nothing to schedule has moved the
\* clock to the completion of the earliest core
C35_Witness ==
    /\ cfg.op_time = 0 /\ cfg.queue_size = None
    /\ \E e \in queue :
          /\ e.idx = step - 1
          /\ e.st.pending # {} /\ e.st.scheduled = {}
          /\ e.st.clock > 0 /\ e.st.clock = first_core_clock(e.st)

\* the references the renaming table counts for the object
refs(table, obj) ==
    SumOver([h \in DOMAIN table |-> table[h].count],
            {h \in DOMAIN table : table[h].obj = obj})

\* C36 (as claimed): with the renaming table, the completion of a
\* transaction does not fail and takes one reference from the table for
\* every address of its read set and one for every address of its write
\* set, and none elsewhere; the table of the terminal state a run returns
\* has every slot free.
C36_CompletionFrees ==
    [][(Popping /\ cfg.size # None) =>
          /\ (~terminal(top.st) /\ ~can_execute(top.st) /\ can_complete(top.st)) =>
                /\ status' # "failed"
                /\ \A st \in Pushed : \E c \in top.st.cores :
                      /\ st.cores = top.st.cores \ {c}
                      /\ \A obj \in Addr :
                            refs(st.table, obj) =
                                refs(top.st.table, obj)
                                - (IF obj \in trs[c.transaction.id].read_set THEN 1 ELSE 0)
                                - (IF obj \in trs[c.transaction.id].write_set THEN 1 ELSE 0)
          /\ terminal(top.st) =>
                \A h \in DOMAIN top.st.table : top.st.table[h] = Slot(None, 0)]_vars

\* scheduler.run on the state st reads cores[0].clock (schedulers.py 28 and
\* 72): the queue is full, or the pool is not empty after the refill and a
\* batch that schedule can return is empty
reads_core_clock(st) ==
    \/ cfg.queue_size = Cardinality(st.scheduled)
    \/ LET filled == fill_pending(st, 0)
           max_count == IF cfg.queue_size = None THEN None
                        ELSE cfg.queue_size - Cardinality(filled.scheduled)
       IN /\ filled.pending # {}
          /\ \E order \in Orders(filled.pending) :
                LET res == schedule(ongoing_set(filled), order, max_count)
                IN \E i \in DOMAIN res : {} \in Batches(res[i])

\* C40 (as claimed): whenever scheduler.run, called by the driver, reads the
\* clock of the earliest core (the queue is full, or a returned batch is
\* empty), at least one core is executing.
C40_CoreClockDefined ==
    (Popping /\ scheduler_called(top.st) /\ reads_core_clock(top.st)) => top.st.cores # {}

(***************************************************************************)
(* Machine.run with the ConstantTimeScheduler (machine.py): the driver of  *)
(* the first generation.  mach holds the locals of run and the cores; one  *)
(* action is one iteration of its while loop.  A core's transaction is 0   *)
(* when the core is idle.                                                  *)
(***************************************************************************)
Idle0 == 0

\* ConstantTimeScheduler.run: at most n candidates, in iteration order
RECURSIVE ConstantTimePass(_, _, _)
ConstantTimePass(ongoing, pending, candidates) ==
    IF pending = << >> \/ Cardinality(candidates.transactions) = cfg.n
    THEN candidates
    ELSE LET tr == Head(pending) IN
         IF compatible_loop(ongoing, trs[tr]) /\ compatible_loop(candidates, trs[tr])
         THEN ConstantTimePass(ongoing, Tail(pending), add(candidates, Tr(tr)))
         ELSE ConstantTimePass(ongoing, Tail(pending), candidates)

free_cores(m) == {i \in DOMAIN m.cores : m.cores[i].transaction = Idle0}
busy_cores(m) == {i \in DOMAIN m.cores : m.cores[i].transaction # Idle0}

\* min(cores, key=clock_fn): the first core of least clock
min_core(m, among) ==
    CHOOSE i \in among : \A j \in among :
        m.cores[i].clock < m.cores[j].clock
        \/ (m.cores[i].clock = m.cores[j].clock /\ i <= j)

\* the part of an iteration under "if not scheduled": refill, then schedule
machine_schedule(m) ==
    IF m.scheduled # {} THEN {m}
    ELSE
      LET left   == Len(trs) - m.tr_iter
          room   == IF cfg.pool_size = None THEN left + 1
                    ELSE IF cfg.pool_size > Cardinality(m.pending)
                         THEN cfg.pool_size - Cardinality(m.pending) ELSE 0
          taken  == IF room < left THEN room ELSE left
          filled == m.pending \cup ((m.tr_iter + 1)..(m.tr_iter + taken))
          running_now == {Tr(m.cores[i].transaction) : i \in busy_cores(m)}
      IN { LET scheduled == {tr.id : tr \in
                     ConstantTimePass(TransactionSet(running_now), order,
                                      EmptySet).transactions}
           IN [m EXCEPT !.tr_iter = @ + taken,
                        !.is_tr_left = IF room > left THEN FALSE ELSE @,
                        !.scheduled = scheduled,
                        !.pending = filled \ scheduled,
                        !.scheduler_clock = @ + cfg.scheduling_time]
           : order \in Orders(filled) }

\* machine_dispatch without moving the idle core's clock forward
machine_dispatch_stale(m, tr) ==
    LET core == min_core(m, free_cores(m))
    IN [m EXCEPT !.cores[core] = Core(m.cores[core].clock + trs[tr].time, tr),
                 !.scheduled = @ \ {tr}]

\* "Execute scheduled transaction on first idle core."
machine_dispatch(m, tr) ==
    LET core == min_core(m, free_cores(m))
        from == IF m.scheduler_clock > m.cores[core].clock
                THEN m.scheduler_clock ELSE m.cores[core].clock
    IN [m EXCEPT !.cores[core] = Core(from + trs[tr].time, tr),
                 !.scheduled = @ \ {tr}]

\* "Remove first finished transaction."
machine_finish(m) ==
    LET core   == min_core(m, busy_cores(m))
        finish == m.cores[core].clock
    IN [m EXCEPT !.cores = [i \in DOMAIN m.cores |->
                               IF i = core THEN Core(finish, Idle0)
                               ELSE IF i \in free_cores(m) THEN Core(finish, Idle0)
                               ELSE m.cores[i]],
                 !.scheduler_clock = IF finish > @ THEN finish ELSE @]

Looping == mach.pc = "loop" /\ (mach.pending # {} \/ mach.is_tr_left)

MachineDispatch ==
    /\ Looping
    /\ \E m \in machine_schedule(mach) :
          /\ free_cores(mach) # {} /\ m.scheduled # {}
          /\ \E tr \in m.scheduled : mach' = machine_dispatch(m, tr)
    /\ UNCHANGED <<trs, cfg, queue, step, status, final, tset>>

MachineFinish ==
    /\ Looping
    /\ \E m \in machine_schedule(mach) :
          /\ ~(free_cores(mach) # {} /\ m.scheduled # {})
          /\ mach' = IF busy_cores(m) = {} THEN [m EXCEPT !.pc = "failed"]
                     ELSE machine_finish(m)
    /\ UNCHANGED <<trs, cfg, queue, step, status, final, tset>>

MachineReturn ==
    /\ mach.pc = "loop"
    /\ ~(mach.pending # {} \/ mach.is_tr_left)
    /\ mach' = [mach EXCEPT !.pc = "returned",
                            !.ret = Max({mach.cores[i].clock : i \in DOMAIN mach.cores})]
    /\ UNCHANGED <<trs, cfg, queue, step, status, final, tset>>

MachineConfigs ==
    [n_cores : 1..MaxCores, pool_size : {None} \cup 1..MaxPool,
     scheduling_time : 0..MaxOpTime, n : 1..MaxBatch]

InitMachine ==
    /\ trs \in Sources
    /\ cfg \in MachineConfigs
    /\ mach = [pc |-> "loop", cores |-> [i \in 1..cfg.n_cores |-> Core(0, Idle0)],
               scheduler_clock |-> 0, tr_iter |-> 0, pending |-> {}, scheduled |-> {},
               is_tr_left |-> TRUE, ret |-> 0]
    /\ queue = {}
    /\ step = 0
    /\ status = "idle"
    /\ final = NoState
    /\ tset = Unused

NextMachine == MachineDispatch \/ MachineFinish \/ MachineReturn

SpecMachine == InitMachine /\ [][NextMachine]_vars

\* C5 (as claimed): with a single core and zero scheduling cost the final
\* clock returned equals the sum of the transactions' times.
C5_SingleCoreSum ==
    (mach.pc = "returned" /\ cfg.n_cores = 1 /\ cfg.scheduling_time = 0)
        => mach.ret = total_time

\* C9: a core that starts a transaction gets the completion clock
\* c + tr.time, c the scheduler clock at dispatch, and keeps that clock for
\* as long as it executes the transaction.
C9_CoreClock ==
    [][mach.pc = "loop" => \A i \in DOMAIN mach.cores :
          LET before == mach.cores[i]
              after  == mach'.cores[i]
          IN /\ (after.transaction # Idle0 /\ after.transaction # before.transaction)
                   => after.clock = mach'.scheduler_clock + trs[after.transaction].time
             /\ (after.transaction # Idle0 /\ after.transaction = before.transaction)
                   => after.clock = before.clock]_vars

C9_Witness ==
    /\ mach.pc = "loop"
    /\ mach.scheduler_clock > 0
    /\ \E i, j \in DOMAIN mach.cores :
          /\ mach.cores[i].transaction # Idle0
          /\ mach.cores[j].transaction = Idle0
          /\ mach.cores[j].clock > 0

\* C34 (as claimed): one iteration of the driver applies one transition:
\* the scheduler and the start of a transaction on a core never both happen
\* in it.
C34_OneTransitionPerStep ==
    [][Looping =>
          ~(/\ mach.scheduled = {}
            /\ \E i \in DOMAIN mach.cores :
                  /\ mach.cores[i].transaction = Idle0
                  /\ mach'.cores[i].transaction # Idle0)]_vars

(***************************************************************************)
(* TransactionSet on its own: any sequence of add calls, then compatible.  *)
(***************************************************************************)
InitSet ==
    /\ trs \in Sources
    /\ cfg = None
    /\ queue = {}
    /\ step = 0
    /\ status = "idle"
    /\ final = NoState
    /\ mach = Idle
    /\ tset = Unused

NextSet == SetAdd \/ SetMerge \/ SetCompatible

SpecSet == InitSet /\ [][NextSet]_vars

\* the unions of the sets of the transactions a TransactionSet contains
read_union(ts) == UNION {trs[t.id].read_set : t \in ts.transactions}
write_union(ts) == UNION {trs[t.id].write_set : t \in ts.transactions}

no_overlap(ts, x) ==
    /\ x.read_set \cap write_union(ts) = {}
    /\ x.write_set \cap read_union(ts) = {}
    /\ x.write_set \cap write_union(ts) = {}

\* C2: with exact sets, compatible(t) is true exactly when t's reads miss
\* the writes of the set and t's writes miss its reads and its writes.
C2_CompatibleExact ==
    tset.called =>
        /\ tset.answer <=> no_overlap(tset.set, tset.asked)
        /\ tset.answer_loop <=> no_overlap(tset.set, tset.asked)

C2_Witness ==
    /\ tset.called
    /\ Cardinality(tset.set.transactions) = 2
    /\ tset.asked.read_set \cap read_union(tset.set) # {}
    /\ tset.answer

\* C26: after any sequence of adds and merges, with exact sets the read
\* union of a TransactionSet is the union of the read sets of the
\* transactions it contains, and its write union that of their write sets.
C26_UnionsConsistent ==
    /\ tset.set.read_set = read_union(tset.set)
    /\ tset.set.write_set = write_union(tset.set)

C26_Witness ==
    /\ Cardinality(tset.set.transactions) = 2
    /\ Cardinality(tset.set.write_set) = 2
    /\ ~tset.called

(***************************************************************************)
(* ApproximateAddressSet (sets.py): a Bloom-filter-like bit vector of      *)
(* cfg.size bits with cfg.n_funcs hash functions.  bits is held as the set *)
(* of the positions of its one bits: | is the union, & the intersection,   *)
(* and bits != 0 is non-emptiness.                                         *)
(***************************************************************************)
MaxWidth == 3
MaxFuncs == 2

\* the encoding without the first hash function: range(1, n_funcs)
ApproximateAddressSet_skip(objects) ==
    UNION {{(obj + i) % cfg.size : i \in 1..(cfg.n_funcs - 1)} : obj \in objects}

\* bits |= 1 << ((obj + i) % size) for each object and each i in range(n_funcs)
ApproximateAddressSet(objects) ==
    UNION {{(obj + i) % cfg.size : i \in 0..(cfg.n_funcs - 1)} : obj \in objects}

\* the transaction x with the sets the ApproximateAddressSetMaker makes
Approximate(id, x) ==
    [id |-> id, read_set |-> ApproximateAddressSet(x.read_set),
     write_set |-> ApproximateAddressSet(x.write_set), time |-> x.time]

ApproxAdd ==
    /\ ~tset.called
    /\ \E t \in Ids : tset' = [tset EXCEPT !.set = add(@, Approximate(t, trs[t]))]
    /\ UNCHANGED <<trs, cfg, queue, step, status, final, mach>>

ApproxCompatible ==
    /\ ~tset.called
    /\ \E x \in Transaction :
          tset' = [tset EXCEPT !.called = TRUE,
                               !.asked = x,
                               !.answer = compatible(tset.set, Approximate(0, x))]
    /\ UNCHANGED <<trs, cfg, queue, step, status, final, mach>>

ApproximateConfigs == [size : 1..MaxWidth, n_funcs : 1..MaxFuncs]

InitApprox ==
    /\ trs \in Sources
    /\ cfg \in ApproximateConfigs
    /\ queue = {}
    /\ step = 0
    /\ status = "idle"
    /\ final = NoState
    /\ mach = Idle
    /\ tset = Unused

NextApprox == ApproxAdd \/ ApproxCompatible

SpecApprox == InitApprox /\ [][NextApprox]_vars

\* the same transactions with the sets the IdealAddressSetMaker makes
Ideal(ts) == TransactionSet({Tr(t.id) : t \in ts.transactions})

\* C15: two address collections that share an address have bit vectors
\* whose AND is not zero, and whenever compatible() is true with approximate
\* sets it is true for the same transactions with exact sets.
C15_NoFalseNegative ==
    /\ \A A, B \in SUBSET Addr :
          A \cap B # {} => ApproximateAddressSet(A) \cap ApproximateAddressSet(B) # {}
    /\ (tset.called /\ tset.answer) => compatible(Ideal(tset.set), tset.asked)

\* compatible() is true for a set of two transactions, with fewer bits than
\* addresses and writes on both sides
C15_Witness ==
    /\ tset.called /\ tset.answer
    /\ cfg.size < Cardinality(Addr)
    /\ Cardinality(tset.set.transactions) = 2
    /\ tset.asked.write_set # {}
    /\ tset.set.write_set # {}

(***************************************************************************)
(* The renaming table on its own: transactions are created from the        *)
(* templates of a TransactionGenerator (send) and freed (free) in any      *)
(* order, through any copy of the set maker.  heap holds the table lists   *)
(* and makers the reference each FiniteAddressSetMaker object keeps in its *)
(* table attribute; live holds the transactions created and not yet freed. *)
(***************************************************************************)
MaxTableSet == 2
MaxCopies == 1

TableTemplates ==
    {t \in [read_set : SUBSET Addr, write_set : SUBSET Addr, time : {1}] :
        Cardinality(t.read_set) + Cardinality(t.write_set) <= MaxTableSet}

TableSources == UNION {[1..n -> TableTemplates] : n \in 0..MaxTemplates}

TableConfigs ==
    {c \in [size : 1..MaxSize, n_hash_funcs : 1..MaxSize] : c.n_hash_funcs <= c.size}

\* the table the maker m reads and writes
table_of(m) == mach.heap[mach.makers[m]]

\* incoming.send(maker m)
TableCreate ==
    /\ mach.pc = "table"
    /\ mach.tr_index < Len(trs)
    /\ \E m \in DOMAIN mach.makers :
          LET st   == MachineState(mach.tr_index, mach.overflowed, table_of(m),
                                   mach.live, {}, {}, 0)
              sent == send(st)
          IN mach' = [mach EXCEPT !.tr_index = sent.st.tr_index,
                                  !.overflowed = sent.st.overflowed,
                                  !.heap[mach.makers[m]] = sent.st.table,
                                  !.live = IF sent.made THEN @ \cup {sent.tr} ELSE @,
                                  !.last = IF sent.made THEN "made" ELSE "refused"]
    /\ UNCHANGED <<trs, cfg, queue, step, status, final, tset>>

\* maker m .free(tr)
TableFree ==
    /\ mach.pc = "table"
    /\ \E m \in DOMAIN mach.makers : \E tr \in mach.live :
          LET freed == free(table_of(m), tr)
          IN mach' = [mach EXCEPT !.heap[mach.makers[m]] = freed.table,
                                  !.live = @ \ {tr},
                                  !.last = IF freed.ok THEN "freed" ELSE "error"]
    /\ UNCHANGED <<trs, cfg, queue, step, status, final, tset>>

\* copy.copy(maker m), as MachineState.copy does: the new object gets the
\* attributes of m, the reference to its table list among them
TableCopy ==
    /\ mach.pc = "table"
    /\ Len(mach.makers) <= MaxCopies
    /\ \E m \in DOMAIN mach.makers :
          mach' = [mach EXCEPT !.makers = Append(@, mach.makers[m]),
                               !.last = "copied"]
    /\ UNCHANGED <<trs, cfg, queue, step, status, final, tset>>

InitTable ==
    /\ trs \in TableSources
    /\ cfg \in TableConfigs
    /\ mach = [pc |-> "table", heap |-> << EmptyTable >>, makers |-> << 1 >>,
               tr_index |-> 0, overflowed |-> << >>, live |-> {},
               last |-> "init"]
    /\ queue = {}
    /\ step = 0
    /\ status = "idle"
    /\ final = NoState
    /\ tset = Unused

NextTable == TableCreate \/ TableFree \/ TableCopy

SpecTable == InitTable /\ [][NextTable]_vars

\* C17: starting from an all-free table, once every transaction that was
\* created has been freed (each once), every slot of the table is free
\* again; no free raises on the way.
C17_RoundTrip ==
    /\ mach.last # "error"
    /\ mach.live = {} => \A m \in DOMAIN mach.makers : table_of(m) = EmptyTable

\* three transactions were created on a table of two slots and all freed
C17_Witness ==
    /\ mach.last = "freed" /\ mach.live = {}
    /\ mach.tr_index = 3 /\ mach.overflowed = << >>
    /\ cfg.size = 2
    /\ \A t \in 1..3 : trs[t].read_set \cup trs[t].write_set # {}

\* C18: a creation the renaming table refuses leaves the table as it was
\* before the attempt, slot by slot and count by count.
C18_FailedCreateRestores ==
    [][mach'.last = "refused" => mach'.heap = mach.heap]_vars

\* the write set of the last template was refused after its read set had
\* been named, with other transactions live
C18_Witness ==
    /\ mach.last = "refused" /\ mach.live # {}
    /\ LET t == trs[mach.tr_index]
       IN /\ t.read_set # {} /\ t.write_set # {}
          /\ FiniteAddressSet(table_of(1), ascending(t.read_set), {}, {}).ok

\* C37: every slot of the renaming table is free (no object, count 0) or
\* held (an object, count > 0), and no free of a transaction that was
\* created through the table and not freed since fails, neither on the
\* assertion nor with 'object not found'.
C37_SlotsWellFormed ==
    /\ \A m \in DOMAIN mach.makers : \A h \in DOMAIN table_of(m) :
          LET slot == table_of(m)[h] IN
          \/ slot.obj = None /\ slot.count = 0
          \/ slot.obj # None /\ slot.count > 0
    /\ mach.last # "error"

\* a transaction was freed while an address occupied two slots
C37_Witness ==
    /\ mach.last = "freed" /\ mach.live # {}
    /\ \E h1, h2 \in DOMAIN table_of(1) :
          /\ h1 # h2
          /\ table_of(1)[h1].obj # None
          /\ table_of(1)[h1].obj = table_of(1)[h2].obj

\* C38 (as claimed): no two slots of the renaming table hold the same
\* object.
C38_OneSlotPerAddress ==
    \A m \in DOMAIN mach.makers : \A h1, h2 \in DOMAIN table_of(m) :
        (h1 # h2 /\ table_of(m)[h1].obj # None) =>
            table_of(m)[h1].obj # table_of(m)[h2].obj

\* C20 (as claimed): after a copy, a creation or a free through one set
\* maker leaves the table seen through every other maker unchanged.
C20_CopiesIsolated ==
    [][(mach'.last \in {"made", "refused", "freed"} /\ Len(mach.makers) > 1) =>
          \E m \in DOMAIN mach.makers : \A n \in DOMAIN mach.makers \ {m} :
              mach'.heap[mach'.makers[n]] = mach.heap[mach.makers[n]]]_vars

(***************************************************************************)
(* The schedule methods on their own: one call of schedule(ongoing,        *)
(* pending, max_count).  The first n_ongoing transactions of trs are the   *)
(* ongoing set and the others are pending, iterated in the order of trs    *)
(* (trs ranges over every sequence, so over every set and every order).    *)
(***************************************************************************)
MaxPending == 4
MaxCount == 2

SchedSources ==
    UNION {[1..n -> {t \in Transaction : t.time = 1}] : n \in 0..MaxPending}

SchedConfigs ==
    {Config(k, o, None, None, 1, None) : k \in SchedulerKinds, o \in 0..MaxOpTime}
    \cup {Config([sched |-> "maximal", n_schedules |-> n, is_pipelined |-> FALSE],
                 o, None, None, 1, None) :
             n \in 2..MaxSchedules, o \in 0..MaxOpTime}

\* the arguments of the call
sched_ongoing == TransactionSet({Tr(t) : t \in 1..mach.n_ongoing})
sched_pending == [i \in 1..(Len(trs) - mach.n_ongoing) |-> Tr(mach.n_ongoing + i)]

SchedCall ==
    /\ mach.pc = "sched"
    /\ ~mach.called
    /\ \E k \in 0..Len(trs), m \in {None} \cup 1..MaxCount :
          LET ongoing == TransactionSet({Tr(t) : t \in 1..k})
              pending == [i \in 1..(Len(trs) - k) |-> Tr(k + i)]
          IN mach' = [mach EXCEPT !.called = TRUE, !.n_ongoing = k, !.max_count = m,
                                  !.res = schedule(ongoing, pending, m)]
    /\ UNCHANGED <<trs, cfg, queue, step, status, final, tset>>

InitSched ==
    /\ trs \in SchedSources
    /\ cfg \in SchedConfigs
    /\ mach = [pc |-> "sched", called |-> FALSE, n_ongoing |-> 0, max_count |-> None,
               res |-> << >>]
    /\ queue = {}
    /\ step = 0
    /\ status = "idle"
    /\ final = NoState
    /\ tset = Unused

NextSched == SchedCall

SpecSched == InitSched /\ [][NextSched]_vars

\* the pending transactions of the call, and the batches it can return
pending_set == {sched_pending[i] : i \in DOMAIN sched_pending}
batches == UNION {Batches(mach.res[i]) : i \in DOMAIN mach.res}

\* no pending transaction left out of the batch is compatible with ongoing
\* and with the batch
work_conserving(batch) ==
    \A tr \in pending_set \ batch :
        ~(compatible(sched_ongoing, tr) /\ compatible(TransactionSet(batch), tr))

\* C22 (as claimed): for every ongoing, pending and max_new, no pending
\* transaction Greedy leaves out is compatible with ongoing and the batch.
C22_GreedyWorkConserving ==
    (mach.called /\ cfg.sched = "greedy") => \A batch \in batches : work_conserving(batch)

\* C22 (amended): the same when max_new is unbounded or the batch has fewer
\* than max_new members.
C22_GreedyWorkConservingBelowCap ==
    (mach.called /\ cfg.sched = "greedy") =>
        \A batch \in batches :
            (mach.max_count = None \/ Cardinality(batch) < mach.max_count)
                => work_conserving(batch)

\* Greedy left out a transaction that came before one it included
C22_Witness ==
    /\ mach.called /\ cfg.sched = "greedy" /\ mach.n_ongoing = 1
    /\ Len(sched_pending) = 3 /\ mach.max_count = 2
    /\ \E batch \in batches :
          /\ Cardinality(batch) < 2
          /\ sched_pending[1] \notin batch /\ sched_pending[2] \in batch

\* C23 (as claimed): for every ongoing and pending, no pending transaction
\* Tournament leaves out is compatible with ongoing and the batch.
C23_TournamentWorkConserving ==
    (mach.called /\ cfg.sched = "tournament" /\ mach.max_count = None) =>
        \A batch \in batches : work_conserving(batch)

\* C27: every batch a scheduler returns is made of pending transactions,
\* each compatible with the ongoing set, pairwise compatible, and has at
\* most max_new members when max_new is set.
C27_BatchConflictFree ==
    mach.called =>
        \A batch \in batches :
            /\ batch \subseteq pending_set
            /\ \A tr \in batch : compatible(sched_ongoing, tr)
            /\ \A a, b \in batch : a # b => compatible(TransactionSet({a}), b)
            /\ mach.max_count # None => Cardinality(batch) <= mach.max_count

\* two batches are returned, one of two members, and a pending transaction
\* is refused by the ongoing set
C27_Witness ==
    /\ mach.called /\ Len(mach.res) = 2 /\ mach.n_ongoing = 1
    /\ \E batch \in batches : Cardinality(batch) = 2
    /\ \E tr \in pending_set : ~compatible(sched_ongoing, tr)

\* the reference single pass from the i-th pending transaction on, with the
\* batch B accumulated so far
RECURSIVE reference_pass(_, _)
reference_pass(i, B) ==
    IF i > Len(sched_pending) \/ (mach.max_count # None /\ Cardinality(B) >= mach.max_count)
    THEN B
    ELSE LET tr == sched_pending[i] IN
         IF compatible(sched_ongoing, tr) /\ compatible(TransactionSet(B), tr)
         THEN reference_pass(i + 1, B \cup {tr})
         ELSE reference_pass(i + 1, B)

\* C28: Greedy returns exactly one pair, with elapsed = op_time and the
\* batch of the reference single pass.
C28_GreedySinglePass ==
    (mach.called /\ cfg.sched = "greedy") =>
        /\ Len(mach.res) = 1
        /\ mach.res[1].time = cfg.op_time
        /\ batches = {reference_pass(1, {})}

\* the pass skipped the second pending transaction and stopped at two
\* members before a compatible fourth one
C28_Witness ==
    /\ mach.called /\ cfg.sched = "greedy" /\ cfg.op_time = 1
    /\ Len(sched_pending) = 4 /\ mach.max_count = 2
    /\ \E batch \in batches :
          /\ Cardinality(batch) = 2
          /\ sched_pending[2] \notin batch /\ sched_pending[4] \notin batch
          /\ compatible(TransactionSet(batch), sched_pending[4])

\* the subsets of pending whose members are pairwise compatible and
\* compatible with ongoing
feasible ==
    {F \in SUBSET pending_set :
        \A tr \in F : /\ compatible(sched_ongoing, tr)
                      /\ \A other \in F \ {tr} : compatible(TransactionSet({other}), tr)}

\* the candidate sets the returned batches are taken from
returned_sets == {mach.res[i].candidates.transactions : i \in DOMAIN mach.res}

\* C29 (as claimed): every batch Maximal returns is a feasible subset, every
\* feasible subset larger than a returned batch is returned too, and each
\* comes with elapsed = op_time.
C29_MaximalLargest ==
    (mach.called /\ cfg.sched = "maximal") =>
        \A i \in DOMAIN mach.res :
            /\ mach.res[i].time = cfg.op_time
            /\ \A batch \in Batches(mach.res[i]) :
                  /\ batch \in feasible
                  /\ \A F \in feasible : Cardinality(F) > Cardinality(batch) => F \in batches

\* C29 (amended): Maximal selects min(n_schedules, number of feasible
\* subsets) distinct feasible subsets, every feasible subset larger than a
\* selected one is selected too, each comes with elapsed = op_time, and the
\* batch returned for a selected set is that set without a queue limit and
\* max_new of its members (all of them if it has fewer) with one.
C29_MaximalLargestBeforeCut ==
    (mach.called /\ cfg.sched = "maximal") =>
        /\ Len(mach.res) = (IF cfg.n_schedules < Cardinality(feasible)
                            THEN cfg.n_schedules ELSE Cardinality(feasible))
        /\ Cardinality(returned_sets) = Len(mach.res)
        /\ \A i \in DOMAIN mach.res :
            LET selected == mach.res[i].candidates.transactions IN
            /\ mach.res[i].time = cfg.op_time
            /\ selected \in feasible
            /\ \A F \in feasible : Cardinality(F) > Cardinality(selected) => F \in returned_sets
            /\ \A batch \in Batches(mach.res[i]) :
                  /\ batch \subseteq selected
                  /\ Cardinality(batch) =
                        (IF mach.max_count = None \/ mach.max_count > Cardinality(selected)
                         THEN Cardinality(selected) ELSE mach.max_count)

\* two schedules were asked for with room for one transaction, and the
\* largest feasible subset, of two of the three pending transactions, was
\* selected and cut
C29_Witness ==
    /\ mach.called /\ cfg.sched = "maximal" /\ cfg.n_schedules = 2
    /\ mach.n_ongoing = 1 /\ Len(sched_pending) = 3 /\ mach.max_count = 1
    /\ Len(mach.res) = 2
    /\ Cardinality(mach.res[1].candidates.transactions) = 2
    /\ \A F \in feasible : Cardinality(F) <= 2

\* the least r with 2^r >= m
ceil_log2(m) == CHOOSE r \in 0..m : 2^r >= m /\ \A q \in 0..(r - 1) : 2^q < m

\* the pending transactions compatible with ongoing, in pending order
entrants == SelectSeq(sched_pending, LAMBDA tr : compatible(sched_ongoing, tr))

\* the sets left after k halving rounds
RECURSIVE after_rounds(_)
after_rounds(k) ==
    IF k = 0 THEN [i \in DOMAIN entrants |-> TransactionSet({entrants[i]})]
    ELSE TournamentRound(after_rounds(k - 1))

\* C30: with m >= 1 pending transactions compatible with ongoing, Tournament
\* halves the sets (n to ceil(n/2)) until one remains after ceil(log2 m)
\* rounds and returns exactly one pair, with elapsed = op_time * max(1,
\* rounds) when not pipelined and elapsed = op_time when pipelined.
C30_TournamentRounds ==
    (mach.called /\ cfg.sched = "tournament" /\ Len(entrants) >= 1) =>
        LET m == Len(entrants)
            rounds == ceil_log2(m)
        IN /\ \A k \in 1..rounds :
                 /\ Len(after_rounds(k - 1)) > 1
                 /\ 2 * Len(after_rounds(k)) \in {Len(after_rounds(k - 1)), Len(after_rounds(k - 1)) + 1}
           /\ Len(after_rounds(rounds)) = 1
           /\ Len(mach.res) = 1
           /\ mach.res[1].candidates = after_rounds(rounds)[1]
           /\ mach.res[1].time = (IF cfg.is_pipelined THEN cfg.op_time
                                  ELSE cfg.op_time * (IF rounds > 1 THEN rounds ELSE 1))

\* a tournament of three entrants next to one ongoing transaction took two
\* rounds, not pipelined
C30_Witness ==
    /\ mach.called /\ cfg.sched = "tournament" /\ ~cfg.is_pipelined
    /\ cfg.op_time = 1 /\ mach.n_ongoing = 1
    /\ Len(entrants) = 3 /\ mach.res[1].time = 2

(***************************************************************************)
(* TransactionGenerator on its own (pmtypes.py, generator.py): send,       *)
(* reset_overflows and the free of a transaction it made, with a renaming  *)
(* table.  Here trs holds the configurations (reads, writes, time) and     *)
(* cfg.addresses the addresses they are given in turn; indices are those   *)
(* of the Python lists (from 0).  An entry of overflowed or deferred is    *)
(* the pair (tr_base, address_base).                                       *)
(***************************************************************************)
\* send copies the time of a configuration into the transaction it makes and
\* reads it nowhere else
GenTimes == {1}

GenTemplates == [reads : 0..1, writes : 0..1, time : GenTimes]

GenSources == UNION {[1..n -> GenTemplates] : n \in 0..MaxTemplates}

\* the addresses the configurations need, one after the other
needed(data) == SumOver([t \in DOMAIN data |-> data[t].reads + data[t].writes], DOMAIN data)

\* self.addresses[start:end]
slice(start, end) ==
    LET stop == IF end < Len(cfg.addresses) THEN end ELSE Len(cfg.addresses)
    IN [i \in 1..(IF stop > start THEN stop - start ELSE 0) |-> cfg.addresses[start + i]]

\* the objects of a sequence, without repetition
objects_of(seq) == {seq[i] : i \in DOMAIN seq}

\* send(intset_maker) on the generator g with the table g.table: the
\* outcome is a transaction (made), no transaction (the table refused it)
\* or StopIteration (stopped)
gen_send(g) ==
    IF g.deferred = << >> /\ g.tr_index = Len(trs)
    THEN [stopped |-> TRUE, made |-> FALSE, g |-> g]
    ELSE
      LET retry   == g.deferred # << >>
          tr_base == IF retry THEN Head(g.deferred)[1] ELSE g.tr_index
          tr_conf == trs[tr_base + 1]
          read_start  == IF retry THEN Head(g.deferred)[2] ELSE g.address_index
          write_start == read_start + tr_conf.reads
          write_end   == write_start + tr_conf.writes
          drawn == IF retry THEN [g EXCEPT !.deferred = Tail(@)]
                   ELSE [g EXCEPT !.tr_index = @ + 1, !.address_index = write_end]
          read_objs  == objects_of(slice(read_start, write_start))
          write_objs == objects_of(slice(write_start, write_end))
          reads == FiniteAddressSet(g.table, ascending(read_objs), {}, {})
          failed(table) ==
              [stopped |-> FALSE, made |-> FALSE,
               g |-> [drawn EXCEPT !.table = table,
                                   !.overflowed = Append(@, << drawn.tr_index - 1, read_start >>)]]
      IN IF ~reads.ok THEN failed(reads.table)
         ELSE
           LET writes == FiniteAddressSet(reads.table, ascending(write_objs), {}, {}) IN
           IF ~writes.ok
           THEN failed(delete_each(writes.table, ascending(read_objs)).table)
           ELSE [stopped |-> FALSE, made |-> TRUE,
                 g |-> [drawn EXCEPT !.table = writes.table],
                 tr |-> [tr_base |-> tr_base, address_base |-> read_start,
                         read_set |-> read_objs, write_set |-> write_objs,
                         time |-> tr_conf.time]]

GenSend ==
    /\ mach.pc = "gen"
    /\ LET sent == gen_send(mach) IN
       /\ ~sent.stopped
       /\ mach' = IF sent.made
                  THEN [sent.g EXCEPT !.live = @ \cup {sent.tr},
                                      !.made = @ \cup {<< sent.tr.tr_base, sent.tr.address_base >>},
                                      !.last = "made"]
                  ELSE [sent.g EXCEPT !.last = "refused"]
    /\ UNCHANGED <<trs, cfg, queue, step, status, final, tset>>

\* reset_overflows
GenReset ==
    /\ mach.pc = "gen"
    /\ mach.overflowed # << >>
    /\ mach' = [mach EXCEPT !.deferred = @ \o mach.overflowed,
                            !.overflowed = << >>,
                            !.last = "reset"]
    /\ UNCHANGED <<trs, cfg, queue, step, status, final, tset>>

\* intset_maker.free(tr) for a transaction the generator has made
GenFree ==
    /\ mach.pc = "gen"
    /\ \E tr \in mach.live :
          LET freed == delete_each(mach.table, ascending(tr.read_set)
                                               \o ascending(tr.write_set))
          IN mach' = [mach EXCEPT !.table = freed.table,
                                  !.live = @ \ {tr},
                                  !.last = IF freed.ok THEN "freed" ELSE "error"]
    /\ UNCHANGED <<trs, cfg, queue, step, status, final, tset>>

InitGen ==
    /\ trs \in GenSources
    /\ \E c \in TableConfigs :
          cfg \in {[size |-> c.size, n_hash_funcs |-> c.n_hash_funcs, addresses |-> a] :
                      a \in [1..needed(trs) -> Addr]}
    /\ mach = [pc |-> "gen", tr_index |-> 0, address_index |-> 0,
               overflowed |-> << >>, deferred |-> << >>, table |-> EmptyTable,
               live |-> {}, made |-> {}, last |-> "init"]
    /\ queue = {}
    /\ step = 0
    /\ status = "idle"
    /\ final = NoState
    /\ tset = Unused

NextGen == GenSend \/ GenReset \/ GenFree

SpecGen == InitGen /\ [][NextGen]_vars

\* the index in self.addresses of the first address given to the
\* configuration of index t
base_of(t) == needed(SubSeq(trs, 1, t))

\* C39 (as claimed): every entry the source holds for a refused template
\* names that template with the address range first assigned to it; every
\* transaction made is a template with its own addresses, no template is
\* made twice, and when the source is exhausted every template was made.
C39_DeferredIdentity ==
    /\ \A i \in DOMAIN mach.overflowed : mach.overflowed[i][2] = base_of(mach.overflowed[i][1])
    /\ \A i \in DOMAIN mach.deferred : mach.deferred[i][2] = base_of(mach.deferred[i][1])
    /\ \A p \in mach.made : p[2] = base_of(p[1])
    /\ \A p, q \in mach.made : p[1] = q[1] => p = q
    /\ (mach.tr_index = Len(trs) /\ mach.overflowed = << >> /\ mach.deferred = << >>) =>
          {p[1] : p \in mach.made} = 0..(Len(trs) - 1)

====

